---- MODULE Spec2Model ----
(***************************************************************************)
(* A state-machine model of the JSON-RPC 2.0 websocket client engine       *)
(* (class JsonRpcWebsocket, src/src/jsonrpc-websocket.ts).                 *)
(*                                                                         *)
(* JavaScript values are modelled as follows.                              *)
(*   - an optional value (a property that may be missing, `undefined`) is  *)
(*     a sequence of length 0 (missing) or 1 (present);                    *)
(*   - a method name is a sequence of one-character strings, so that       *)
(*     String.prototype.toLowerCase is computed character by character;    *)
(*   - every other JSON scalar is a string ("2", "false", "", "null").     *)
(* All callbacks run on one thread, so every handler is one atomic action. *)
(***************************************************************************)
EXTENDS Integers, Sequences, FiniteSets, TLC

\* ---------------------------------------------------------------- bounds

\* transports the engine may create (createWebsocket invocations)
MaxTransports == 2
\* request ids the engine may allocate (call() invocations that pass the guard)
MaxCalls == 2
\* the transports a program makes when only the connection lifecycle is followed
MaxOpens == 3

\* ------------------------------------------------------ program constants

\* enum WebsocketReadyStates
CONNECTING == 0
OPEN == 1
CLOSING == 2
CLOSED == 3

\* enum JsonRpcErrorCodes
PARSE_ERROR == -32700
INVALID_REQUEST == -32600
METHOD_NOT_FOUND == -32601
INVALID_PARAMS == -32602
INTERNAL_ERROR == -32603
INVALID_RESPONSE == -32001
REQUEST_TIMEOUT == -32002

\* the close code of a normal closure, `this.websocket.close(1000)`
NormalClosure == 1000
\* a close code other than 1000: an abnormal closure (connection lost or refused)
AbnormalClosure == 1006
\* the code of the CloseEvent close() makes up when there is no websocket
NoStatusReceived == 1005

\* public jsonRpcVersion = '2.0'
jsonRpcVersion == "2.0"

\* ------------------------------------------------------- optional values

\* `undefined`, a missing property
Undefined == <<>>
Some(v) == <<v>>
IsDefined(o) == o # <<>>
\* the value of an optional known to be present
The(o) == o[1]

\* JavaScript's ToBoolean on the scalars of the model (!!v, if (v))
Truthy(v) == v \notin {"", "0", "false", "null", "undefined", "NaN"}
\* ToBoolean of an optional request id: undefined and 0 are falsy
TruthyId(oid) == IsDefined(oid) /\ The(oid) # 0

\* ---------------------------------------------------------- method names

sum_ == <<"s", "u", "m">>
Sum_ == <<"S", "u", "m">>
SUM_ == <<"S", "U", "M">>
throwError_ == <<"t", "h", "r", "o", "w", "E", "r", "r", "o", "r">>
constructor_ == <<"c", "o", "n", "s", "t", "r", "u", "c", "t", "o", "r">>
Constructor_ == <<"C", "o", "n", "s", "t", "r", "u", "c", "t", "o", "r">>

\* one character of String.prototype.toLowerCase
LowerChar(c) ==
  CASE c = "S" -> "s"
    [] c = "U" -> "u"
    [] c = "M" -> "m"
    [] c = "E" -> "e"
    [] c = "C" -> "c"
    [] OTHER -> c

\* String.prototype.toLowerCase
toLowerCase(name) == [i \in DOMAIN name |-> LowerChar(name[i])]

\* ------------------------------------------------- registered callbacks

\* The callbacks a program registers with on(): `(a, b) => a + b` and
\* `() => { throw new Error(...) }` (the tests' sum and throwError).
Callbacks == {"sum", "throwError"}
\* What a lookup in the method table can yield besides a registered
\* callback: the table is a plain object literal, so a name that is no own
\* property is looked up on Object.prototype, whose `constructor` is Object.
ObjectConstructor == "Object"

\* Function.prototype.length: the declared parameter count
Length(method) ==
  CASE method = "sum" -> 2
    [] method = "throwError" -> 0
    [] OTHER -> 1

\* getParameterNames(method): the declared parameter names, in order
getParameterNames(method) ==
  CASE method = "sum" -> <<"a", "b">>
    [] OTHER -> <<>>

\* JavaScript's a + b on the scalars of the model
Plus(a, b) ==
  CASE a = "2" /\ b = "3" -> "5"
    [] a = "3" /\ b = "2" -> "5"
    [] a = "false" /\ b = "false" -> "0"
    [] a = "null" /\ b = "false" -> "0"
    [] a = "0" /\ b = "" -> "0"
    [] OTHER -> "NaN"

\* a missing argument reads as undefined
Arg(args, i) == IF i <= Len(args) THEN args[i] ELSE "undefined"

\* method(...requestParams): what the callback returns or throws
Apply(method, args) ==
  CASE method = "sum" ->
         [threw |-> FALSE, value |-> Plus(Arg(args, 1), Arg(args, 2))]
    [] method = "throwError" ->
         [threw |-> TRUE, value |-> "Error: thrown"]
    [] OTHER ->
         [threw |-> FALSE, value |-> IF args = <<>> THEN "{}" ELSE args[1]]

\* ----------------------------------------------------------------- frames

\* A parsed frame: every property optional.  raw tells what JSON.parse made
\* of the text: an object ("json"), the value null ("null"), or a SyntaxError
\* ("garbage").
Frame(raw, version, id, method, params, result, error) ==
  [raw |-> raw, jsonrpc |-> version, id |-> id, method |-> method,
   params |-> params, result |-> result, error |-> error]

\* params: an array (vals), an object (keys in Object.keys order, with the
\* value of each in vals) or a scalar (the one element of vals)
ArrayParams(items) == [kind |-> "array", keys |-> <<>>, vals |-> items]
ObjectParams(keys, vals) == [kind |-> "object", keys |-> keys, vals |-> vals]
ScalarParams(v) == [kind |-> "scalar", keys |-> <<>>, vals |-> <<v>>]

\* class JsonRpcError
Error(code, message) == [code |-> Some(code), message |-> Some(message)]
\* what JSON.stringify leaves of a thrown Error instance, whose own
\* properties are not enumerable: the empty object
ThrownError == [code |-> Undefined, message |-> Undefined]

\* class JsonRpcRequest, as call() and notify() build it
Request(id, method, params) ==
  Frame("json", Some(jsonRpcVersion), id, Some(method), params, Undefined, Undefined)

\* class JsonRpcResponse, as respond() and the engine's synthetic rejections build it
Response(id, result, error) ==
  Frame("json", Some(jsonRpcVersion), id, Undefined, Undefined, result, error)

\* Object.prototype.hasOwnProperty.call(object, propertyName)
hasProperty(object, propertyName) ==
  object.raw = "json" /\ IsDefined(object[propertyName])

\* ------------------------------------------------------------------ state

VARIABLES
  websocket,             \* this.websocket: the index of a transport, 0 for undefined
  readyState,            \* readyState of each transport created so far, in creation order
  openDeferredPromise,   \* per transport, the deferred createWebsocket returned
  closeDeferredPromise,  \* this.closeDeferredPromise: the index of a deferred, 0 for undefined
  closeResolved,         \* per close-deferred, the close event it was resolved with (optional)
                         \* and the errors its handler had reported by then
  closeCaller,           \* per close-deferred, who holds its promise: "user", "open" or "none"
  requestId,             \* this.requestId
  pendingRequests,       \* this.pendingRequests: request id -> request
  timers,                \* the armed request timers, each named by its request id
  promise,               \* request id -> the DeferredPromise createPendingRequest made
  rpcMethods,            \* this.rpcMethods: own properties, lowercase name -> callback
  sendLog,               \* history: the ids call() handed to send, with the outcome
  sentOn,                \* history: for each call that is outstanding, the transport
                         \* its Request was written to
  fx                     \* what the last operation did, as seen from outside

vars == <<websocket, readyState, openDeferredPromise, closeDeferredPromise,
          closeResolved, closeCaller, requestId, pendingRequests, timers,
          promise, rpcMethods, sendLog, sentOn, fx>>

lifecycle == <<websocket, readyState, openDeferredPromise, closeDeferredPromise,
               closeResolved, closeCaller>>
correlation == <<requestId, pendingRequests, timers, promise, sendLog, sentOn>>

Transports == 1..Len(readyState)

\* get state()
state == IF websocket # 0 THEN readyState[websocket] ELSE CLOSED

\* A faulty guard: it looks for a websocket, not at its state
notOpenedWithoutState == websocket = 0

\* the guard of call, notify and respond
notOpened == websocket = 0 \/ state # OPEN

\* What an operation did: the frame handed to handleMessage (received), the
\* frames handed to send (sent, each with its transport and whether send took
\* it or threw), the errors
\* handed to callOnError (errors), the callbacks invoked with their
\* arguments (invoked), the close(code) requests (closes), and how the
\* operation ended (outcome).
Fx(op, received, sent, errors, invoked, closes, outcome) ==
  [op |-> op, received |-> received, sent |-> sent, errors |-> errors,
   invoked |-> invoked, closes |-> closes, outcome |-> outcome]

Outcome(kind, code, id) == [kind |-> kind, code |-> code, id |-> id]
Returned == Outcome("returned", Undefined, Undefined)
Threw == Outcome("threw", Undefined, Undefined)

Quiet(op) == Fx(op, Undefined, <<>>, <<>>, <<>>, <<>>, Returned)
\* between two operations: nothing is running, nothing to report
Idle == Quiet("idle")

\* a DeferredPromise: pending, or settled with a value
Pending == [state |-> "pending", value |-> Undefined]
Settled(how, value) == [state |-> how, value |-> Some(value)]

\* DeferredPromise.resolve: settling a settled promise changes nothing
resolve(p, value) == IF p.state = "pending" THEN Settled("resolved", value) ELSE p
\* DeferredPromise.reject
reject(p, value) == IF p.state = "pending" THEN Settled("rejected", value) ELSE p

\* ------------------------------------------------------ message handling

\* What a piece of message handling did: frames handed to send, errors handed to
\* callOnError, callbacks invoked, and whether an exception left it.
Did(sent, errors, invoked, threw) ==
  [sent |-> sent, errors |-> errors, invoked |-> invoked, threw |-> threw]
Nothing == Did(<<>>, <<>>, <<>>, FALSE)
Throw == Did(<<>>, <<>>, <<>>, TRUE)
\* catch: the exception that left a is caught
Caught(a) == [a EXCEPT !.threw = FALSE]
\* b after a; b does not run when a threw
Then(a, b) ==
  IF a.threw THEN a
  ELSE Did(a.sent \o b.sent, a.errors \o b.errors, a.invoked \o b.invoked, b.threw)

\* this.callOnError(error)
callOnError(error) == Did(<<>>, <<error>>, <<>>, FALSE)

\* A faulty send: the exception of the transport is caught and not thrown on
sendAndSwallow(frame, sendThrows) ==
  Did(<<[transport |-> websocket, frame |-> frame, ok |-> ~sendThrows]>>,
      <<>>, <<>>, FALSE)

\* this.websocket.send(JSON.stringify(frame)) inside try/catch: the frame is
\* handed to the current transport, which takes it (ok) or throws; the
\* exception is thrown on
send(frame, sendThrows) ==
  Did(<<[transport |-> websocket, frame |-> frame, ok |-> ~sendThrows]>>,
      <<>>, <<>>, sendThrows)

\* private respond(id, result?, error?)
respond(id, result, error, sendThrows) ==
  IF notOpened THEN Throw
  ELSE IF (IsDefined(result) /\ Truthy(The(result))) /\ IsDefined(error) THEN Throw
  ELSE send(Response(Some(id), result, error), sendThrows)

respondOk(id, result, sendThrows) == respond(id, result, Undefined, sendThrows)

respondError(id, error, sendThrows) == respond(id, Undefined, Some(error), sendThrows)

\* A faulty handleError: it replies whether or not there is a request id
handleErrorAlwaysReplies(code, message, replyId, sendThrows) ==
  Then(callOnError(Error(code, message)),
       IF notOpened THEN Throw
       ELSE send(Response(replyId, Undefined, Some(Error(code, message))), sendThrows))

\* A faulty handleError: the error goes to the peer only, never to callOnError
handleErrorRepliesOnly(code, message, replyId, sendThrows) ==
  IF TruthyId(replyId)
    THEN respondError(The(replyId), Error(code, message), sendThrows)
    ELSE Nothing

\* private handleError(code, message, requestId?)
handleError(code, message, replyId, sendThrows) ==
  Then(callOnError(Error(code, message)),
       IF TruthyId(replyId)
         THEN respondError(The(replyId), Error(code, message), sendThrows)
         ELSE Nothing)

\* this.rpcMethods[name]: the own property, or else the property that
\* Object.prototype has under that name
rpcMethodsGet(name) ==
  IF name \in DOMAIN rpcMethods THEN Some(rpcMethods[name])
  ELSE IF name = constructor_ THEN Some(ObjectConstructor)
  ELSE Undefined

\* if (request.params): arrays and objects are truthy, scalars by value
ParamsGiven(params) ==
  IsDefined(params) /\ (The(params).kind = "scalar" => Truthy(The(params).vals[1]))

\* request.params[paramName] of an object
ParamValue(p, paramName) ==
  IF \E i \in DOMAIN p.keys : p.keys[i] = paramName
    THEN Some(p.vals[CHOOSE i \in DOMAIN p.keys : p.keys[i] = paramName])
    ELSE Undefined

Params(args) == [threw |-> FALSE, message |-> "", args |-> args]
InvalidParams(message) == [threw |-> TRUE, message |-> message, args |-> <<>>]

\* A faulty getRequestParams: `if (!paramValue)`, a falsy value is a missing one
getRequestParamsRejectsFalsy(method, request) ==
  IF ~ParamsGiven(request.params) THEN Params(<<>>)
  ELSE
    LET p == The(request.params) IN
    IF p.kind = "array" THEN
      IF Length(method) # Len(p.vals)
        THEN InvalidParams("Invalid parameters. Method expects n parameters, but got m")
        ELSE Params(p.vals)
    ELSE IF p.kind = "object" THEN
      LET parameterNames == getParameterNames(method) IN
      IF Length(method) # Len(p.keys)
        THEN InvalidParams("Invalid parameters. Method expects parameters [names], but got [keys]")
      ELSE IF \E i \in DOMAIN parameterNames :
                \/ ~IsDefined(ParamValue(p, parameterNames[i]))
                \/ ~Truthy(The(ParamValue(p, parameterNames[i])))
        THEN InvalidParams("Invalid parameters. Method expects parameters [names], but got [keys]")
      ELSE Params([i \in DOMAIN parameterNames |-> The(ParamValue(p, parameterNames[i]))])
    ELSE InvalidParams("Invalid parameters. Expected array or object, but got type")

\* private getRequestParams(method, request)
getRequestParams(method, request) ==
  IF ~ParamsGiven(request.params) THEN Params(<<>>)
  ELSE
    LET p == The(request.params) IN
    IF p.kind = "array" THEN
      IF Length(method) # Len(p.vals)
        THEN InvalidParams("Invalid parameters. Method expects n parameters, but got m")
        ELSE Params(p.vals)
    ELSE IF p.kind = "object" THEN
      LET parameterNames == getParameterNames(method) IN
      IF Length(method) # Len(p.keys)
        THEN InvalidParams("Invalid parameters. Method expects parameters [names], but got [keys]")
      ELSE IF \E i \in DOMAIN parameterNames :
                ~IsDefined(ParamValue(p, parameterNames[i]))
        THEN InvalidParams("Invalid parameters. Method expects parameters [names], but got [keys]")
      ELSE Params([i \in DOMAIN parameterNames |-> The(ParamValue(p, parameterNames[i]))])
    ELSE InvalidParams("Invalid parameters. Expected array or object, but got type")

\* a callback's return value as the `result` property: undefined is no property
AsResult(value) == IF value = "undefined" THEN Undefined ELSE Some(value)

\* private handleRequest(request)
handleRequest(request, sendThrows) ==
  LET method == rpcMethodsGet(toLowerCase(The(request.method))) IN
  IF ~IsDefined(method)
    THEN handleError(METHOD_NOT_FOUND, "Method was not found", request.id, sendThrows)
  ELSE
    LET requestParams == getRequestParams(The(method), request) IN
    IF requestParams.threw
      THEN handleError(INVALID_PARAMS, requestParams.message, request.id, sendThrows)
    ELSE
      LET result == Apply(The(method), requestParams.args)
          called == Did(<<>>, <<>>,
                        <<[callback |-> The(method), args |-> requestParams.args]>>,
                        result.threw)
          \* try { const result = method(...); if (request.id) respondOk(...) }
          tried == Then(called,
                        IF TruthyId(request.id)
                          THEN respondOk(The(request.id), AsResult(result.value), sendThrows)
                          ELSE Nothing)
      IN
      IF tried.threw
        THEN \* catch (e) { if (request.id) respondError(request.id, e) }
          Then(Caught(tried),
               IF TruthyId(request.id)
                 THEN respondError(The(request.id), ThrownError, sendThrows)
                 ELSE Nothing)
        ELSE tried

\* A faulty clearTimeout: the timer stays armed
clearTimeoutLeavesArmed(handle) == timers

\* clearTimeout(handle): the armed timers without that one
clearTimeout(handle) == timers \ {handle}

\* What handling a message leaves: what it did, and the timers and promises after it.
Handled(did, armed, promises) == [did |-> did, timers |-> armed, promise |-> promises]

\* A faulty handleResponse: it looks the request up under the id issued last
handleResponseOfLatest(response) ==
  IF requestId \notin DOMAIN pendingRequests
    THEN Handled(Nothing, timers, promise)
    ELSE Handled(Nothing, clearTimeout(requestId),
                 [promise EXCEPT ![requestId] = resolve(@, response)])

\* A faulty handleResponse: a Response that matches no request is dropped
\* without a report
handleResponseDropsUnmatched(response) ==
  IF The(response.id) \notin DOMAIN pendingRequests
    THEN Handled(Nothing, timers, promise)
    ELSE LET id == The(response.id) IN
         Handled(Nothing, clearTimeout(id),
                 [promise EXCEPT ![id] =
                    IF hasProperty(response, "error") THEN reject(@, response)
                    ELSE resolve(@, response)])

\* A faulty handleResponse: it looks at the error first, and rejects with the
\* Response as it came also when the Response has a result as well
handleResponseErrorFirst(response) ==
  IF The(response.id) \notin DOMAIN pendingRequests
    THEN Handled(callOnError(Error(INTERNAL_ERROR, "Received a response with an unknown id")),
                 timers, promise)
    ELSE LET id == The(response.id) IN
         Handled(Nothing, clearTimeout(id),
                 [promise EXCEPT ![id] =
                    IF hasProperty(response, "error") THEN reject(@, response)
                    ELSE resolve(@, response)])

\* A faulty handleResponse: an error it rejects a call with is also handed to
\* callOnError
handleResponseReportsRejections(response) ==
  LET id == The(response.id) IN
  IF id \notin DOMAIN pendingRequests
    THEN Handled(callOnError(Error(INTERNAL_ERROR, "Received a response with an unknown id")),
                 timers, promise)
  ELSE IF hasProperty(response, "result") /\ hasProperty(response, "error")
    THEN Handled(callOnError(Error(INVALID_RESPONSE, "Invalid response.")),
                 clearTimeout(id),
                 [promise EXCEPT ![id] =
                    reject(@, Response(Some(id), Undefined,
                              Some(Error(INVALID_RESPONSE,
                                         "Invalid response. Either result or error must be set, but not both."))))])
  ELSE IF hasProperty(response, "error")
    THEN Handled(callOnError(The(response.error)), clearTimeout(id),
                 [promise EXCEPT ![id] = reject(@, response)])
  ELSE Handled(Nothing, clearTimeout(id), [promise EXCEPT ![id] = resolve(@, response)])

\* private handleResponse(response)
handleResponse(response) ==
  LET id == The(response.id) IN
  IF id \notin DOMAIN pendingRequests
    THEN Handled(callOnError(Error(INTERNAL_ERROR,
                   "Received a response with an id which does not match any requests made by this client")),
                 timers, promise)
  ELSE
    LET activeRequest == pendingRequests[id]
        armed == clearTimeout(activeRequest.timeout)
    IN
    IF hasProperty(response, "result") /\ hasProperty(response, "error")
      THEN Handled(Nothing, armed,
             [promise EXCEPT ![activeRequest.response] =
                reject(@, Response(activeRequest.request.id, Undefined,
                          Some(Error(INVALID_RESPONSE,
                                     "Invalid response. Either result or error must be set, but not both."))))])
    ELSE IF hasProperty(response, "error")
      THEN Handled(Nothing, armed,
             [promise EXCEPT ![activeRequest.response] = reject(@, response)])
    ELSE Handled(Nothing, armed,
             [promise EXCEPT ![activeRequest.response] = resolve(@, response)])

\* A faulty handleMessage: it dispatches on the shape of the frame first and
\* checks the version only of what is neither a Response nor a Request
handleMessageDispatchesFirst(data, sendThrows) ==
  IF data.raw = "garbage"
    THEN Handled(handleError(PARSE_ERROR, "Invalid JSON was received.", Undefined, sendThrows),
                 timers, promise)
  ELSE IF data.raw = "null" THEN Handled(Throw, timers, promise)
  ELSE IF hasProperty(data, "id") /\ (hasProperty(data, "result") \/ hasProperty(data, "error"))
    THEN handleResponse(data)
  ELSE IF hasProperty(data, "method")
    THEN Handled(handleRequest(data, sendThrows), timers, promise)
  ELSE Handled(handleError(INVALID_REQUEST, "Invalid JSON RPC protocol version.",
                           Undefined, sendThrows),
               timers, promise)

\* A faulty handleMessage: after the version check it looks for a method
\* first, so that a frame with a method is a Request whatever else it has
handleMessageRequestFirst(data, sendThrows) ==
  IF data.raw = "garbage"
    THEN Handled(handleError(PARSE_ERROR, "Invalid JSON was received.", Undefined, sendThrows),
                 timers, promise)
  ELSE IF data.raw = "null" THEN Handled(Throw, timers, promise)
  ELSE
    LET replyId == IF hasProperty(data, "method") /\ TruthyId(data.id) THEN data.id ELSE Undefined
    IN
    IF ~IsDefined(data.jsonrpc) \/ The(data.jsonrpc) # jsonRpcVersion
      THEN Handled(handleError(INVALID_REQUEST, "Invalid JSON RPC protocol version.",
                               replyId, sendThrows),
                   timers, promise)
    ELSE IF hasProperty(data, "method")
      THEN Handled(handleRequest(data, sendThrows), timers, promise)
    ELSE IF hasProperty(data, "id") /\ (hasProperty(data, "result") \/ hasProperty(data, "error"))
      THEN handleResponse(data)
    ELSE Handled(handleError(INVALID_REQUEST, "Received unknown data", replyId, sendThrows),
                 timers, promise)

\* private handleMessage(msg), with data = JSON.parse(msg)
handleMessage(data, sendThrows) ==
  IF data.raw = "garbage"
    THEN Handled(handleError(PARSE_ERROR, "Invalid JSON was received.", Undefined, sendThrows),
                 timers, promise)
  ELSE
    LET isResponse == data.raw # "null" /\ hasProperty(data, "id")
                      /\ (hasProperty(data, "result") \/ hasProperty(data, "error"))
        isRequest == data.raw # "null" /\ hasProperty(data, "method")
        replyId == IF isRequest /\ TruthyId(data.id) THEN data.id ELSE Undefined
    IN
    IF data.raw = "null"
      THEN \* data.jsonrpc of null: a TypeError
        Handled(Throw, timers, promise)
    ELSE IF ~IsDefined(data.jsonrpc) \/ The(data.jsonrpc) # jsonRpcVersion
      THEN Handled(handleError(INVALID_REQUEST, "Invalid JSON RPC protocol version.",
                               replyId, sendThrows),
                   timers, promise)
    ELSE IF isResponse THEN handleResponse(data)
    ELSE IF isRequest THEN Handled(handleRequest(data, sendThrows), timers, promise)
    ELSE Handled(handleError(INVALID_REQUEST, "Received unknown data", replyId, sendThrows),
                 timers, promise)

\* ------------------------------------------------------------------ maps

\* an object literal with no own property
EmptyObject == [k \in {} |-> 0]
\* object[key] = value
Put(object, key, value) ==
  [k \in DOMAIN object \cup {key} |-> IF k = key THEN value ELSE object[k]]
\* delete object[key]
Delete(object, key) == [k \in DOMAIN object \ {key} |-> object[k]]

\* ------------------------------------------------------- the environment

\* the method a program calls and notifies
test_ == <<"t", "e", "s", "t">>
CallMethods == {test_}
\* the names a program registers callbacks under, and removes
OnNames == {sum_, SUM_}
OffNames == {Sum_, Constructor_}
\* the method names the peer asks for
PeerMethods == {sum_, SUM_, throwError_, constructor_}

\* the ids the peer uses: 0, the ids the engine may issue, and one it never issues
PeerIds == 0..(MaxCalls + 1)

\* the error object of a peer's error Response
PeerError == Error(INVALID_PARAMS, "Invalid parameters")

\* Response-shaped frames: result only, error only, both
PeerResponses ==
  { Frame("json", Some(jsonRpcVersion), Some(id), Undefined, Undefined, result, error) :
      id \in PeerIds,
      result \in {Undefined, Some("test success")},
      error \in {Undefined, Some(PeerError)} }
  \ { Frame("json", Some(jsonRpcVersion), Some(id), Undefined, Undefined, Undefined, Undefined) :
      id \in PeerIds }

\* Request-shaped frames, with and without id
PeerRequests ==
  { Frame("json", Some(jsonRpcVersion), id, Some(method), params, Undefined, Undefined) :
      id \in {Undefined, Some(0), Some(1)},
      method \in PeerMethods,
      params \in {Undefined, Some(ArrayParams(<<"2", "3">>)), Some(ArrayParams(<<"2", "3", "4">>))} }

\* params as keyed mappings: the declared names in both orders, falsy values,
\* a name missing, a name replaced, and the empty mapping
NamedParams ==
  { ObjectParams(<<"a", "b">>, <<"2", "3">>),
    ObjectParams(<<"b", "a">>, <<"3", "2">>),
    ObjectParams(<<"a", "b">>, <<"false", "false">>),
    ObjectParams(<<"a", "b">>, <<"0", "">>),
    ObjectParams(<<"b", "a">>, <<"false", "null">>),
    ObjectParams(<<"a">>, <<"2">>),
    ObjectParams(<<"a", "c">>, <<"2", "3">>),
    ObjectParams(<<>>, <<>>) }

\* Requests for sum with named params, with and without id
NamedRequests ==
  { Frame("json", Some(jsonRpcVersion), id, Some(sum_), Some(params), Undefined, Undefined) :
      id \in {Undefined, Some(0), Some(1)},
      params \in NamedParams }

\* Requests for sum whose params is a number, a string or a boolean, with and
\* without id
ScalarRequests ==
  { Frame("json", Some(jsonRpcVersion), id, Some(sum_), Some(ScalarParams(v)), Undefined, Undefined) :
      id \in {Undefined, Some(0), Some(1)},
      v \in {"1", "0", "", "false"} }

\* frames of another protocol version, or of none
OtherVersion ==
  { [f EXCEPT !.jsonrpc = version] :
      f \in { Frame("json", Undefined, Some(1), Undefined, Undefined, Some("test success"), Undefined),
              Frame("json", Undefined, Some(1), Some(sum_), Undefined, Undefined, Undefined),
              Frame("json", Undefined, Undefined, Some(sum_), Undefined, Undefined, Undefined) },
      version \in {Undefined, Some("1.0")} }

\* frames that are neither, the JSON value null, and text that is no JSON
Malformed ==
  { Frame("json", Some(jsonRpcVersion), id, Undefined, Undefined, Undefined, Undefined) :
      id \in {Undefined, Some(1)} }
  \cup { Frame("null", Undefined, Undefined, Undefined, Undefined, Undefined, Undefined),
         Frame("garbage", Undefined, Undefined, Undefined, Undefined, Undefined, Undefined) }

\* frames that have a method and are Response-shaped too
Ambiguous ==
  { Frame("json", Some(jsonRpcVersion), Some(1), Some(sum_), Undefined, result, error) :
      result \in {Undefined, Some("test success")},
      error \in {Undefined, Some(PeerError)} }
  \ { Frame("json", Some(jsonRpcVersion), Some(1), Some(sum_), Undefined, Undefined, Undefined) }

Frames ==
  PeerResponses \cup PeerRequests \cup NamedRequests \cup ScalarRequests
  \cup OtherVersion \cup Malformed

\* ------------------------------------------------------------- lifecycle

Lifecycle ==
  [websocket |-> websocket, readyState |-> readyState,
   openDeferredPromise |-> openDeferredPromise,
   closeDeferredPromise |-> closeDeferredPromise,
   closeResolved |-> closeResolved, closeCaller |-> closeCaller]

Becomes(L) ==
  /\ websocket' = L.websocket
  /\ readyState' = L.readyState
  /\ openDeferredPromise' = L.openDeferredPromise
  /\ closeDeferredPromise' = L.closeDeferredPromise
  /\ closeResolved' = L.closeResolved
  /\ closeCaller' = L.closeCaller

\* private createWebsocket(): a new transport, connecting, with its two deferreds
createWebsocket(L) ==
  [L EXCEPT !.websocket = Len(L.readyState) + 1,
            !.readyState = Append(@, CONNECTING),
            !.openDeferredPromise = Append(@, "pending"),
            !.closeDeferredPromise = Len(L.readyState) + 1,
            !.closeResolved = Append(@, Undefined),
            !.closeCaller = Append(@, "none")]

\* WebSocket.close(code): a transport that is not closed starts closing
transportClose(rs) == IF rs \in {CONNECTING, OPEN} THEN CLOSING ELSE rs

\* A faulty close(): it keeps the reference to the websocket until the close
\* event
closeKeepsReference(L, caller) ==
  [L EXCEPT !.readyState[L.websocket] = transportClose(@),
            !.closeCaller[L.closeDeferredPromise] = caller]

\* public close(), when there is a websocket; caller holds the promise returned
close(L, caller) ==
  [L EXCEPT !.readyState[L.websocket] = transportClose(@),
            !.websocket = 0,
            !.closeCaller[L.closeDeferredPromise] = caller]

\* the open() calls suspended at `await this.close()`
Suspended ==
  {d \in DOMAIN closeCaller : closeCaller[d] = "open" /\ ~IsDefined(closeResolved[d])}

CloseRequest(t) == [transport |-> t, code |-> NormalClosure]

\* public async open()
Open ==
  /\ fx = Idle
  /\ IF websocket # 0
       THEN /\ Becomes(close(Lifecycle, "open"))
            /\ fx' = Fx("open", Undefined, <<>>, <<>>, <<>>, <<CloseRequest(websocket)>>,
                        Outcome("suspended", Undefined, Some(closeDeferredPromise)))
       ELSE /\ Becomes(createWebsocket(Lifecycle))
            /\ fx' = Fx("open", Undefined, <<>>, <<>>, <<>>, <<>>,
                        Outcome("promise", Undefined, Some(Len(readyState) + 1)))
  /\ UNCHANGED <<correlation, rpcMethods>>

\* A faulty close(): without a websocket it reports the missing connection on
\* the global error channel
CloseReportsNoConnection ==
  /\ fx = Idle
  /\ IF websocket = 0
       THEN /\ UNCHANGED lifecycle
            /\ fx' = Fx("close", Undefined, <<>>,
                        <<Error(NoStatusReceived, "No websocket was opened")>>, <<>>, <<>>,
                        Outcome("resolved", Some(NoStatusReceived), Undefined))
       ELSE /\ Becomes(close(Lifecycle, "user"))
            /\ fx' = Fx("close", Undefined, <<>>, <<>>, <<>>, <<CloseRequest(websocket)>>,
                        Outcome("promise", Undefined, Some(closeDeferredPromise)))
  /\ UNCHANGED <<correlation, rpcMethods>>

\* public close()
Close ==
  /\ fx = Idle
  /\ IF websocket = 0
       THEN /\ UNCHANGED lifecycle
            /\ fx' = Fx("close", Undefined, <<>>, <<>>, <<>>, <<>>,
                        Outcome("resolved", Some(NoStatusReceived), Undefined))
       ELSE /\ Becomes(close(Lifecycle, "user"))
            /\ fx' = Fx("close", Undefined, <<>>, <<>>, <<>>, <<CloseRequest(websocket)>>,
                        Outcome("promise", Undefined, Some(closeDeferredPromise)))
  /\ UNCHANGED <<correlation, rpcMethods>>

\* this.websocket.onopen: the transport t reports that it is open
TransportOpen(t) ==
  /\ fx = Idle
  /\ t \in Transports
  /\ readyState[t] = CONNECTING
  /\ readyState' = [readyState EXCEPT ![t] = OPEN]
  /\ openDeferredPromise' = [openDeferredPromise EXCEPT ![t] = "resolved"]
  /\ fx' = Quiet("onopen")
  /\ UNCHANGED <<websocket, closeDeferredPromise, closeResolved, closeCaller,
                 correlation, rpcMethods>>

\* onclose, lines 148-157: if (event.code !== 1000) this.callOnError(error)
oncloseReport(code) ==
  IF code # NormalClosure THEN callOnError(Error(code, "reason")) ELSE Nothing

\* A faulty onclose: it resolves the close deferred first and reports after
oncloseResolvesFirst(L, t, code) ==
  LET d == L.closeDeferredPromise
      closed == [L EXCEPT !.websocket = 0,
                          !.closeResolved[d] =
                             IF IsDefined(@) THEN @
                             ELSE Some([transport |-> t, code |-> code, reported |-> <<>>])]
  IN
  IF L.closeCaller[d] = "open" /\ ~IsDefined(L.closeResolved[d])
    THEN createWebsocket(closed)
    ELSE closed

\* this.websocket.onclose = (event) => ...: the reference is cleared, the
\* error is reported, and then the close deferred is resolved with the event;
\* `reported` is what the handler had handed to callOnError by then
onclose(L, t, code) ==
  LET d == L.closeDeferredPromise
      closed == [L EXCEPT !.websocket = 0,
                          !.closeResolved[d] =
                             IF IsDefined(@) THEN @
                             ELSE Some([transport |-> t, code |-> code,
                                        reported |-> oncloseReport(code).errors])]
  IN
  \* the open() that awaited this deferred goes on, and creates its websocket
  IF L.closeCaller[d] = "open" /\ ~IsDefined(L.closeResolved[d])
    THEN createWebsocket(closed)
    ELSE closed

\* A faulty close event: it fails the calls that are outstanding, rejecting
\* their futures with the close event and dropping their entries and timers
TransportClosedFailsPending(t, code, failed) ==
  /\ fx = Idle
  /\ t \in Transports
  /\ readyState[t] # CLOSED
  /\ code = NormalClosure => openDeferredPromise[t] = "resolved" /\ ~failed
  /\ LET L == [Lifecycle EXCEPT
                 !.readyState[t] = CLOSED,
                 !.openDeferredPromise[t] = IF failed /\ @ = "pending" THEN "rejected" ELSE @]
     IN Becomes(onclose(L, t, code))
  /\ fx' = Fx("onclose", Some([transport |-> t, code |-> code]), <<>>,
              oncloseReport(code).errors, <<>>, <<>>, Returned)
  /\ promise' = [id \in DOMAIN promise |-> reject(promise[id], Error(code, "reason"))]
  /\ pendingRequests' = EmptyObject
  /\ timers' = {}
  /\ sentOn' = EmptyObject
  /\ UNCHANGED <<requestId, sendLog, rpcMethods>>

\* The transport t is closed: by the peer, by a failure (onerror runs before
\* onclose), or as the end of the closure that close() asked for.  A transport
\* that never was open cannot close normally.
TransportClosed(t, code, failed) ==
  /\ fx = Idle
  /\ t \in Transports
  /\ readyState[t] # CLOSED
  /\ code = NormalClosure => openDeferredPromise[t] = "resolved" /\ ~failed
  /\ LET L == [Lifecycle EXCEPT
                 !.readyState[t] = CLOSED,
                 \* this.websocket.onerror
                 !.openDeferredPromise[t] = IF failed /\ @ = "pending" THEN "rejected" ELSE @]
     IN Becomes(onclose(L, t, code))
  /\ fx' = Fx("onclose", Some([transport |-> t, code |-> code]), <<>>,
              oncloseReport(code).errors, <<>>, <<>>, Returned)
  /\ UNCHANGED <<correlation, rpcMethods>>

\* ----------------------------------------------------------- correlation

\* A faulty getRequestId: this.requestId++, the value before the increment
getRequestIdPostIncrement == requestId

\* private getRequestId(): ++this.requestId
getRequestId == requestId + 1

\* private setupRequestTimeout(requestId): the armed timers with the new one
setupRequestTimeout(id) == timers \cup {id}

\* private createPendingRequest(request): the entry, its deferred and its timer
createPendingRequest(request) ==
  LET id == The(request.id) IN
  [pendingRequests |-> Put(pendingRequests, id,
                           [request |-> request, response |-> id, timeout |-> id]),
   promise |-> Put(promise, id, Pending),
   timers |-> setupRequestTimeout(id)]

\* the calls of the history that are still outstanding, given the futures
Outstanding(history, futures) ==
  [id \in {i \in DOMAIN history : futures[i].state = "pending"} |-> history[id]]

NotOpenedError == Outcome("rejected", Some(INTERNAL_ERROR), Undefined)

\* public call(method, params)
Call(method, params, sendThrows) ==
  /\ fx = Idle
  /\ IF notOpened
    THEN /\ fx' = Fx("call", Undefined, <<>>, <<>>, <<>>, <<>>, NotOpenedError)
         /\ UNCHANGED <<lifecycle, correlation, rpcMethods>>
    ELSE /\ requestId < MaxCalls
         /\ LET request == Request(Some(getRequestId), method, params)
                written == send(request, sendThrows)
            IN
            /\ requestId' = getRequestId
            /\ sendLog' = Append(sendLog, [id |-> getRequestId, ok |-> ~written.threw])
            /\ IF written.threw
                 THEN /\ fx' = Fx("call", Undefined, written.sent, <<>>, <<>>, <<>>,
                                  Outcome("rejected", Some(INTERNAL_ERROR), Undefined))
                      /\ UNCHANGED <<pendingRequests, timers, promise, sentOn>>
                 ELSE /\ LET created == createPendingRequest(request) IN
                         /\ pendingRequests' = created.pendingRequests
                         /\ timers' = created.timers
                         /\ promise' = created.promise
                         /\ sentOn' = Put(sentOn, getRequestId, websocket)
                      /\ fx' = Fx("call", Undefined, written.sent, <<>>, <<>>, <<>>,
                                  Outcome("promise", Undefined, request.id))
         /\ UNCHANGED <<lifecycle, rpcMethods>>

\* A faulty notification: it takes a request id, as call() does
notificationWithId(method, params) == Request(Some(getRequestId), method, params)

\* the request notify() builds: no id
notification(method, params) == Request(Undefined, method, params)

\* public notify(method, params)
Notify(method, params, sendThrows) ==
  /\ fx = Idle
  /\ IF notOpened
       THEN fx' = Fx("notify", Undefined, <<>>, <<>>, <<>>, <<>>, Threw)
       ELSE LET written == send(notification(method, params), sendThrows) IN
            fx' = Fx("notify", Undefined, written.sent, <<>>, <<>>, <<>>,
                     IF written.threw THEN Threw ELSE Returned)
  /\ UNCHANGED <<lifecycle, correlation, rpcMethods>>

\* A faulty timer callback: it rejects as call() does when the websocket is
\* not opened, with the bare error INTERNAL_ERROR
ExpiredWithInternalError(id) ==
  IF id \notin DOMAIN pendingRequests
    THEN [pendingRequests |-> pendingRequests, promise |-> promise]
    ELSE [pendingRequests |-> Delete(pendingRequests, id),
          promise |-> [promise EXCEPT ![id] =
                         reject(@, Error(INTERNAL_ERROR, "The request timed out"))]]

\* the callback that setupRequestTimeout(requestId) armed
Expired(id) ==
  IF id \notin DOMAIN pendingRequests
    THEN [pendingRequests |-> pendingRequests, promise |-> promise]
    ELSE LET activeRequest == pendingRequests[id] IN
         [pendingRequests |-> Delete(pendingRequests, id),
          promise |-> [promise EXCEPT ![activeRequest.response] =
                         reject(@, Response(activeRequest.request.id, Undefined,
                                   Some(Error(REQUEST_TIMEOUT,
                                              "Request exceeded the maximum time and was aborted"))))]]

\* the timer of request id fires
Timeout(id) ==
  /\ fx = Idle
  /\ id \in timers
  /\ timers' = timers \ {id}
  /\ LET after == Expired(id) IN
     /\ pendingRequests' = after.pendingRequests
     /\ promise' = after.promise
     /\ sentOn' = Outstanding(sentOn, after.promise)
  /\ fx' = Quiet("timeout")
  /\ UNCHANGED <<lifecycle, requestId, sendLog, rpcMethods>>

\* A faulty onmessage: a frame that makes the engine report an error ends the
\* session, as close() would
TransportMessageClosesOnError(t, data, sendThrows) ==
  /\ fx = Idle
  /\ t \in Transports
  /\ readyState[t] \in {OPEN, CLOSING}
  /\ openDeferredPromise[t] = "resolved"
  /\ LET handled == handleMessage(data, sendThrows)
         fatal == handled.did.errors # <<>> /\ websocket # 0
     IN
     /\ timers' = handled.timers
     /\ promise' = handled.promise
     /\ sentOn' = Outstanding(sentOn, handled.promise)
     /\ IF fatal THEN Becomes(close(Lifecycle, "none")) ELSE UNCHANGED lifecycle
     /\ fx' = Fx("onmessage", Some([transport |-> t, data |-> data]),
                 handled.did.sent, handled.did.errors, handled.did.invoked,
                 IF fatal THEN <<CloseRequest(websocket)>> ELSE <<>>,
                 IF handled.did.threw THEN Threw ELSE Returned)
  /\ UNCHANGED <<requestId, pendingRequests, sendLog, rpcMethods>>

\* this.websocket.onmessage of transport t
TransportMessage(t, data, sendThrows) ==
  /\ fx = Idle
  /\ t \in Transports
  /\ readyState[t] \in {OPEN, CLOSING}
  \* only a connection that was established delivers messages
  /\ openDeferredPromise[t] = "resolved"
  /\ LET handled == handleMessage(data, sendThrows) IN
     /\ timers' = handled.timers
     /\ promise' = handled.promise
     /\ sentOn' = Outstanding(sentOn, handled.promise)
     /\ fx' = Fx("onmessage", Some([transport |-> t, data |-> data]),
                 handled.did.sent, handled.did.errors, handled.did.invoked, <<>>,
                 IF handled.did.threw THEN Threw ELSE Returned)
  /\ UNCHANGED <<lifecycle, requestId, pendingRequests, sendLog, rpcMethods>>

\* -------------------------------------------------------------- registry

\* public on(methodName, callback)
On(methodName, callback) ==
  /\ fx = Idle
  /\ rpcMethods' = Put(rpcMethods, toLowerCase(methodName), callback)
  /\ fx' = Quiet("on")
  /\ UNCHANGED <<lifecycle, correlation>>

\* public off(methodName)
Off(methodName) ==
  /\ fx = Idle
  /\ rpcMethods' = Delete(rpcMethods, toLowerCase(methodName))
  /\ fx' = Quiet("off")
  /\ UNCHANGED <<lifecycle, correlation>>

\* The operation returns: all callbacks run on one thread, each to its end,
\* and the next one starts only then.
Return ==
  /\ fx # Idle
  /\ fx' = Idle
  /\ UNCHANGED <<lifecycle, correlation, rpcMethods>>

\* ---------------------------------------------------------- specification

\* constructor(url, requestTimeoutMs, onError)
Init ==
  /\ websocket = 0
  /\ readyState = <<>>
  /\ openDeferredPromise = <<>>
  /\ closeDeferredPromise = 0
  /\ closeResolved = <<>>
  /\ closeCaller = <<>>
  /\ requestId = 0
  /\ pendingRequests = EmptyObject
  /\ timers = {}
  /\ promise = EmptyObject
  /\ rpcMethods = EmptyObject
  /\ sendLog = <<>>
  /\ sentOn = EmptyObject
  /\ fx = Idle

\* The peer of the correlation engine: Responses of every shape for every id,
\* and one frame of each other kind.
CorrelationFrames ==
  PeerResponses \cup OtherVersion \cup Malformed
  \cup { Frame("json", Some(jsonRpcVersion), id, Some(sum_), Undefined, Undefined, Undefined) :
           id \in {Undefined, Some(1)} }

\* The program of the correlation engine opens a session and reopens it once:
\* its calls are followed over two transports, whatever MaxTransports allows
\* the other specifications.
Sessions == {"connect", "reconnect"}

\* the transports made so far, and those the suspended open() calls will make
Opened == Len(readyState) + Cardinality(Suspended)

Connect ==
  /\ Opened < Cardinality(Sessions)
  /\ Opened < MaxTransports
  /\ Open

\* The engine as a caller: connection lifecycle, call, notify, timers, and
\* what the peer sends back.
Next ==
  \/ Connect
  \/ Close
  \/ \E t \in 1..MaxTransports : TransportOpen(t)
  \/ \E t \in 1..MaxTransports, code \in {NormalClosure, AbnormalClosure}, failed \in BOOLEAN :
       TransportClosed(t, code, failed)
  \/ \E method \in CallMethods, sendThrows \in BOOLEAN : Call(method, Undefined, sendThrows)
  \/ \E method \in CallMethods, sendThrows \in BOOLEAN : Notify(method, Undefined, sendThrows)
  \/ \E id \in 1..MaxCalls : Timeout(id)
  \/ \E t \in 1..MaxTransports, data \in CorrelationFrames, sendThrows \in BOOLEAN :
       TransportMessage(t, data, sendThrows)
  \/ Return

Spec == Init /\ [][Next]_vars

\* The engine as a callee: connection lifecycle, the method registry, and the
\* Requests and other frames of the peer.
DispatchNext ==
  \/ Opened < MaxTransports /\ Open
  \/ Close
  \/ \E t \in 1..MaxTransports : TransportOpen(t)
  \/ \E t \in 1..MaxTransports, code \in {NormalClosure, AbnormalClosure}, failed \in BOOLEAN :
       TransportClosed(t, code, failed)
  \/ \E methodName \in OnNames, callback \in Callbacks : On(methodName, callback)
  \/ \E methodName \in OffNames : Off(methodName)
  \/ \E t \in 1..MaxTransports, data \in Frames, sendThrows \in BOOLEAN :
       TransportMessage(t, data, sendThrows)
  \/ Return

DispatchSpec == Init /\ [][DispatchNext]_vars

\* The connection lifecycle alone: a program that opens, closes and reopens,
\* one open() at a time, and transports that open and close.
\* The program serializes its open() calls: it calls open() only when the
\* promise of every open() before has settled.
Serialized ==
  /\ Suspended = {}
  /\ \A t \in Transports : openDeferredPromise[t] # "pending"

SessionNext ==
  \/ Opened < MaxOpens /\ Serialized /\ Open
  \/ Close
  \/ \E t \in 1..MaxOpens : TransportOpen(t)
  \/ \E t \in 1..MaxOpens, code \in {NormalClosure, AbnormalClosure}, failed \in BOOLEAN :
       TransportClosed(t, code, failed)
  \/ Return

SessionSpec == Init /\ [][SessionNext]_vars

\* The engine in both roles on one session: it calls, it has a method
\* registered, and the peer sends Responses, Requests and frames of other
\* versions.
EngineNext ==
  \/ Connect
  \/ \E t \in 1..MaxTransports : TransportOpen(t)
  \/ \E method \in CallMethods : Call(method, Undefined, FALSE)
  \/ \E callback \in Callbacks : On(sum_, callback)
  \/ \E id \in 1..MaxCalls : Timeout(id)
  \/ \E t \in 1..MaxTransports, data \in CorrelationFrames \cup Ambiguous, sendThrows \in BOOLEAN :
       TransportMessage(t, data, sendThrows)
  \/ Return

EngineSpec == Init /\ [][EngineNext]_vars

\* Timers fire: every handler runs to its end, and when timers are armed
\* again and again while the event loop is idle, one of them expires.
Fairness == WF_vars(Return) /\ SF_vars(\E id \in 1..MaxCalls : Timeout(id))

LiveSpec == Spec /\ Fairness

\* ------------------------------------------------- properties: correlation

\* the frame the operation reported by f handled
Data(f) == The(f.received).data

\* a Response of the current version with an id, a result and no error
WellFormedResponse(data) ==
  /\ data.raw = "json"
  /\ data.jsonrpc = Some(jsonRpcVersion)
  /\ IsDefined(data.id)
  /\ ~IsDefined(data.method)
  /\ IsDefined(data.result)
  /\ ~IsDefined(data.error)

\* the future of call id exists and is not settled
Unsettled(id) == id \in DOMAIN promise /\ promise[id].state = "pending"

\* the synthetic Response a timed-out call is rejected with
TimeoutRejection(id) ==
  [state |-> "rejected",
   value |-> Some([raw |-> "json", jsonrpc |-> Some("2.0"), id |-> Some(id),
                   method |-> Undefined, params |-> Undefined, result |-> Undefined,
                   error |-> Some([code |-> Some(-32002),
                                   message |-> Some("Request exceeded the maximum time and was aborted")])])]

\* C1: a well-formed Response (current version, result, no error) delivered
\* while the call with its id is sent and neither answered nor timed out
\* resolves that call's future with exactly that Response; and whatever frame
\* is delivered, a future changes only if the frame carries its own id.
C1_ResponseResolvesItsCall ==
  [][ fx'.op = "onmessage" =>
        /\ \A id \in DOMAIN promise :
             promise'[id] # promise[id] => Data(fx').id = Some(id)
        /\ WellFormedResponse(Data(fx')) =>
             \A id \in DOMAIN promise :
               (Data(fx').id = Some(id) /\ promise[id].state = "pending" /\ id \in timers)
                 => promise'[id] = [state |-> "resolved", value |-> Some(Data(fx'))]
    ]_vars

\* C1 witness: the Response to the second call has resolved its future while
\* the first call is still waiting.
C1_Witness ==
  /\ fx.op = "onmessage"
  /\ WellFormedResponse(Data(fx))
  /\ Data(fx).id = Some(2)
  /\ 2 \in DOMAIN promise
  /\ promise[2] = [state |-> "resolved", value |-> Some(Data(fx))]
  /\ Unsettled(1)

\* C2: no call that registered its pending entry waits forever, timers
\* firing whenever they stay armed: again and again every future made so far
\* is settled (and a settled future stays settled); and a future that is
\* settled by anything but a delivered frame (whatever else happened since the
\* call: notify, other calls, close, open) is rejected with the synthetic
\* Response of error code REQUEST_TIMEOUT (-32002) that carries the id of the
\* request.
C2_UnansweredCallTimesOut ==
  /\ []<>(\A id \in DOMAIN promise : promise[id].state # "pending")
  /\ [][ \A id \in DOMAIN promise :
           (promise[id].state = "pending" /\ promise'[id].state # "pending" /\ fx'.op # "onmessage")
             => /\ fx'.op = "timeout"
                /\ promise'[id] = TimeoutRejection(id)
       ]_vars

\* C2 witness: the first call has just timed out, after the session was
\* reopened and a second call was made.
C2_Witness ==
  /\ fx.op = "timeout"
  /\ 1 \in DOMAIN promise
  /\ promise[1] = TimeoutRejection(1)
  /\ Len(readyState) = 2
  /\ Unsettled(2)

\* C3: a settled future never changes again, whatever Responses are delivered
\* and whatever timers fire; a future settled by a Response has no armed timer
\* left, and a call that timed out has no entry left that a later Response
\* could match.
C3_SettledAtMostOnce ==
  [][ \A id \in DOMAIN promise' :
        /\ (id \in DOMAIN promise /\ promise[id].state # "pending") => promise'[id] = promise[id]
        /\ promise'[id].state # "pending" => id \notin timers'
        /\ promise'[id] = TimeoutRejection(id) => id \notin DOMAIN pendingRequests'
    ]_vars

\* C3 witness: a Response to the first call is delivered after that call timed
\* out, and the second call, answered with an error, has no timer.
C3_Witness ==
  /\ fx.op = "onmessage"
  /\ WellFormedResponse(Data(fx))
  /\ Data(fx).id = Some(1)
  /\ 1 \in DOMAIN promise
  /\ promise[1] = TimeoutRejection(1)
  /\ 2 \in DOMAIN promise
  /\ promise[2].state = "rejected"
  /\ promise[2] # TimeoutRejection(2)

\* C4: the pending-request table holds an id exactly when the call with that
\* id was sent and its future is not settled.
C4_TableHoldsTheUnsettled ==
  \A id \in 1..MaxCalls : id \in DOMAIN pendingRequests <=> Unsettled(id)

\* the session is OPEN: there is a websocket and its readyState is OPEN
SessionOpen == websocket # 0 /\ readyState[websocket] = 1

\* C5: when the session is not OPEN (no transport yet, CONNECTING, closed by
\* close(), closed by the transport), call() rejects with INTERNAL_ERROR and
\* notify() throws; nothing is handed to send, and no pending entry, timer,
\* future or request id is made.
C5_NotOpenNeverSends ==
  [][ (fx'.op \in {"call", "notify"} /\ ~SessionOpen) =>
        /\ fx'.sent = <<>>
        /\ fx'.op = "call" =>
             fx'.outcome = [kind |-> "rejected", code |-> Some(-32603), id |-> Undefined]
        /\ fx'.op = "notify" => fx'.outcome.kind = "threw"
        /\ UNCHANGED <<pendingRequests, timers, promise, requestId, sendLog>>
    ]_vars

\* C5 witness: call() was rejected while the websocket is still CONNECTING.
C5_Witness ==
  /\ fx.op = "call"
  /\ fx.outcome.kind = "rejected"
  /\ websocket # 0
  /\ readyState[websocket] = 0

\* C6: when the transport's send throws during call(), the future call()
\* returns is rejected with INTERNAL_ERROR, and the pending-request table, the
\* armed timers and the futures are what they were before the call.
C6_FailedSendLeavesNoEntry ==
  [][ (fx'.op = "call" /\ \E i \in DOMAIN fx'.sent : ~fx'.sent[i].ok) =>
        /\ fx'.outcome = [kind |-> "rejected", code |-> Some(-32603), id |-> Undefined]
        /\ UNCHANGED <<pendingRequests, timers, promise>>
    ]_vars

\* C6 witness: send threw during the second call, while the first call is
\* pending with its timer armed.
C6_Witness ==
  /\ fx.op = "call"
  /\ fx.sent # <<>>
  /\ ~fx.sent[1].ok
  /\ fx.outcome.kind = "rejected"
  /\ DOMAIN pendingRequests = {1}
  /\ timers = {1}

\* C7: the ids of the Requests call() hands to send, in that order, are
\* strictly increasing and start at 1, so no id is given to two calls; the
\* Request of a call carries the id taken for it.
C7_RequestIdsIncrease ==
  /\ sendLog # <<>> => sendLog[1].id = 1
  /\ \A i, j \in DOMAIN sendLog : i < j => sendLog[i].id < sendLog[j].id
  /\ (fx.op = "call" /\ fx.sent # <<>>) =>
       /\ Len(fx.sent) = 1
       /\ fx.sent[1].frame.id = Some(sendLog[Len(sendLog)].id)

\* C7 witness: the second call is sent on the second transport, after a first
\* call whose send threw.
C7_Witness ==
  /\ fx.op = "call"
  /\ Len(sendLog) = 2
  /\ ~sendLog[1].ok
  /\ fx.sent # <<>>
  /\ fx.sent[1].ok
  /\ fx.sent[1].transport = 2

\* C8: notify() while the session is OPEN hands exactly one frame to the
\* current transport, a Request of the current version with a method and no
\* id, and leaves the pending-request table, the armed timers, the futures and
\* the request-id counter as they were.
C8_NotifySendsOneRequestWithoutId ==
  [][ (fx'.op = "notify" /\ SessionOpen) =>
        /\ Len(fx'.sent) = 1
        /\ fx'.sent[1].transport = websocket
        /\ fx'.sent[1].frame.id = Undefined
        /\ IsDefined(fx'.sent[1].frame.method)
        /\ fx'.sent[1].frame.jsonrpc = Some("2.0")
        /\ UNCHANGED <<pendingRequests, timers, promise, requestId>>
    ]_vars

\* C8 witness: a notification was sent while a call is pending.
C8_Witness ==
  /\ fx.op = "notify"
  /\ Len(fx.sent) = 1
  /\ fx.sent[1].ok
  /\ fx.sent[1].frame.id = Undefined
  /\ requestId = 1
  /\ Unsettled(1)

\* --------------------------------------------------- properties: dispatch

\* C9: handling an inbound Request that carries no id hands no frame to the
\* transport, whether its handler returns or raises, its method is not
\* registered, its parameters are invalid or its version is not the current one.
C9_NotificationIsNeverAnswered ==
  (/\ fx.op = "onmessage"
   /\ Data(fx).raw = "json"
   /\ IsDefined(Data(fx).method)
   /\ ~IsDefined(Data(fx).id))
    => fx.sent = <<>>

\* C9 witness: the handler of a Request without id was invoked and raised, and
\* nothing was sent.
C9_Witness ==
  /\ fx.op = "onmessage"
  /\ Data(fx).raw = "json"
  /\ IsDefined(Data(fx).method)
  /\ ~IsDefined(Data(fx).id)
  /\ Len(fx.invoked) = 1
  /\ fx.invoked[1].callback = "throwError"
  /\ fx.sent = <<>>

\* two characters that are the same letter
SameLetter(c, d) ==
  \/ c = d
  \/ {c, d} \in {{"s", "S"}, {"u", "U"}, {"m", "M"}, {"e", "E"}, {"c", "C"}}

\* two method names that are letter-case variants of each other
CaseVariants(a, b) ==
  Len(a) = Len(b) /\ \A i \in DOMAIN a : SameLetter(a[i], b[i])

\* what the engine, as it is, does with a Request for method m
Dispatch(m) ==
  handleRequest([raw |-> "json", jsonrpc |-> Some("2.0"), id |-> Some(1),
                 method |-> Some(m), params |-> Undefined, result |-> Undefined,
                 error |-> Undefined], FALSE)

\* the callback a Request for m is dispatched to, if any
DispatchedTo(m) ==
  IF Dispatch(m).invoked = <<>> THEN Undefined ELSE Some(Dispatch(m).invoked[1].callback)

\* a Request for m is refused with METHOD_NOT_FOUND, and no callback runs
MethodNotFound(m) ==
  /\ Dispatch(m).invoked = <<>>
  /\ Len(Dispatch(m).errors) = 1
  /\ Dispatch(m).errors[1].code = Some(-32601)

\* C10: after on(name, handler) a Request for any letter-case variant of name
\* is dispatched to handler; after off(name) a Request for any letter-case
\* variant of name is refused with METHOD_NOT_FOUND; and no other operation
\* changes what a Request for a method is answered with.
C10_RegistryDispatch ==
  [][ \A m \in PeerMethods :
        /\ \A name \in OnNames, callback \in Callbacks :
             (On(name, callback) /\ CaseVariants(m, name)) => DispatchedTo(m)' = Some(callback)
        /\ \A name \in OffNames :
             (Off(name) /\ CaseVariants(m, name)) => MethodNotFound(m)'
        /\ (~(\E name \in OnNames, callback \in Callbacks : On(name, callback) /\ CaseVariants(m, name))
            /\ ~(\E name \in OffNames : Off(name) /\ CaseVariants(m, name)))
             => /\ DispatchedTo(m)' = DispatchedTo(m)
                /\ MethodNotFound(m)' = MethodNotFound(m)
    ]_vars

\* a correctly versioned frame that handleMessage dispatches as a Request
RequestFrame(data) ==
  /\ data.raw = "json"
  /\ data.jsonrpc = Some("2.0")
  /\ IsDefined(data.method)
  /\ ~(IsDefined(data.id) /\ (IsDefined(data.result) \/ IsDefined(data.error)))

\* a handler is registered for the method of the frame
HasHandler(data) ==
  \E i \in DOMAIN data.method :
    \E name \in DOMAIN rpcMethods : CaseVariants(name, data.method[i])

\* the handler registered for the method of the frame
HandlerOf(data) ==
  rpcMethods[CHOOSE name \in DOMAIN rpcMethods : CaseVariants(name, The(data.method))]

\* the frames of f.sent are one Response, with this id and this result
SentResult(f, id, result) ==
  /\ Len(f.sent) = 1
  /\ f.sent[1].ok
  /\ f.sent[1].frame.id = id
  /\ f.sent[1].frame.result = Some(result)
  /\ f.sent[1].frame.error = Undefined

\* the frames of f.sent are one error Response, with this id and this code
SentError(f, id, code) ==
  /\ Len(f.sent) = 1
  /\ f.sent[1].ok
  /\ f.sent[1].frame.id = id
  /\ f.sent[1].frame.result = Undefined
  /\ IsDefined(f.sent[1].frame.error)
  /\ The(f.sent[1].frame.error).code = Some(code)

\* the declared parameter count of the test handlers: sum(a, b), throwError()
DeclaredCount(handler) == IF handler = "sum" THEN 2 ELSE 0

\* C11: a Request with id and an array as params, for a registered handler:
\* when the array is as long as the handler's declared parameter count the
\* handler is invoked once with the array's values in order and one Response
\* with the Request's id and the returned value as result is sent; otherwise
\* the handler is not invoked and one error Response with INVALID_PARAMS
\* (-32602) and the Request's id is sent.
C11_PositionalParams ==
  (/\ fx.op = "onmessage"
   /\ RequestFrame(Data(fx))
   /\ IsDefined(Data(fx).id)
   /\ IsDefined(Data(fx).params)
   /\ The(Data(fx).params).kind = "array"
   /\ HasHandler(Data(fx)))
    => LET handler == HandlerOf(Data(fx))
           values == The(Data(fx).params).vals
       IN IF Len(values) = DeclaredCount(handler)
            THEN /\ fx.invoked = <<[callback |-> handler, args |-> values]>>
                 /\ handler = "sum" /\ values = <<"2", "3">>
                      => SentResult(fx, Data(fx).id, "5")
                 /\ \E result \in {"5", "NaN"} : SentResult(fx, Data(fx).id, result)
            ELSE /\ fx.invoked = <<>>
                 /\ SentError(fx, Data(fx).id, -32602)

\* the declared parameter names of the test handlers, in declared order
DeclaredNames(handler) == IF handler = "sum" THEN <<"a", "b">> ELSE <<>>

\* the value a keyed mapping binds to a key
Bound(mapping, key) ==
  mapping.vals[CHOOSE i \in DOMAIN mapping.keys : mapping.keys[i] = key]

\* C12: a Request with a keyed mapping as params, for a registered handler:
\* the handler is invoked exactly when the keys of the mapping are the
\* handler's declared parameter names, and then once, with the mapped values
\* in declared order (whatever the key order and the values, false included);
\* otherwise it is not invoked and INVALID_PARAMS (-32602) is answered to the
\* Request's id.
C12_NamedParams ==
  (/\ fx.op = "onmessage"
   /\ RequestFrame(Data(fx))
   /\ IsDefined(Data(fx).params)
   /\ The(Data(fx).params).kind = "object"
   /\ HasHandler(Data(fx)))
    => LET handler == HandlerOf(Data(fx))
           mapping == The(Data(fx).params)
           names == DeclaredNames(handler)
       IN IF {mapping.keys[i] : i \in DOMAIN mapping.keys} = {names[i] : i \in DOMAIN names}
            THEN fx.invoked = <<[callback |-> handler,
                                 args |-> [i \in DOMAIN names |-> Bound(mapping, names[i])]]>>
            ELSE /\ fx.invoked = <<>>
                 /\ IsDefined(Data(fx).id) => SentError(fx, Data(fx).id, -32602)

\* C13: a Request for a method that has no registered handler invokes no
\* handler; with an id, exactly one error Response with METHOD_NOT_FOUND
\* (-32601) and that id is sent; without id nothing is sent.
C13_MethodNotFound ==
  (/\ fx.op = "onmessage"
   /\ RequestFrame(Data(fx))
   /\ ~HasHandler(Data(fx)))
    => /\ fx.invoked = <<>>
       /\ IF IsDefined(Data(fx).id)
            THEN SentError(fx, Data(fx).id, -32601)
            ELSE fx.sent = <<>>

\* the handler invoked for the frame raised
HandlerRaised(f) ==
  /\ f.op = "onmessage"
  /\ RequestFrame(Data(f))
  /\ Len(f.invoked) = 1
  /\ f.invoked[1].callback = "throwError"

\* C14: when the handler of a Request raises, no exception leaves the message
\* callback; for a Request with id exactly one Response is sent, with that id,
\* an error and no result; for a Request without id nothing is sent.
C14_HandlerExceptionIsCaught ==
  HandlerRaised(fx)
    => /\ fx.outcome.kind = "returned"
       /\ IF IsDefined(Data(fx).id)
            THEN /\ Len(fx.sent) = 1
                 /\ fx.sent[1].ok
                 /\ fx.sent[1].frame.id = Data(fx).id
                 /\ IsDefined(fx.sent[1].frame.error)
                 /\ fx.sent[1].frame.result = Undefined
            ELSE fx.sent = <<>>

\* C15: the error of the Response sent when a handler raised is an error
\* object the engine built: it has a code, which is none of the codes of the
\* other failures, and a message (naming the method and the thrown message).
C15_HandlerErrorIsBuiltByEngine ==
  (HandlerRaised(fx) /\ fx.sent # <<>>)
    => \A i \in DOMAIN fx.sent :
         /\ IsDefined(fx.sent[i].frame.error)
         /\ IsDefined(The(fx.sent[i].frame.error).code)
         /\ The(The(fx.sent[i].frame.error).code)
              \notin {-32700, -32600, -32601, -32602, -32603, -32001, -32002}
         /\ IsDefined(The(fx.sent[i].frame.error).message)

\* the one error handed to the global error channel has this code
Reported(f, code) ==
  /\ Len(f.errors) = 1
  /\ f.errors[1].code = Some(code)

\* C16: a parsed frame whose version is missing or is not "2.0" is reported as
\* INVALID_REQUEST (-32600) on the global error channel, and when it carries
\* an id, Request-shaped or Response-shaped, an error Response with that id is
\* sent.
C16_VersionMismatch ==
  (/\ fx.op = "onmessage"
   /\ Data(fx).raw = "json"
   /\ Data(fx).jsonrpc # Some("2.0"))
    => /\ Reported(fx, -32600)
       /\ IsDefined(Data(fx).id) => SentError(fx, Data(fx).id, -32600)

\* C17: a frame of the current version that has neither the shape of a
\* Request nor that of a Response is reported as INVALID_REQUEST (-32600) on
\* the global error channel, and when it carries an id an error Response with
\* that id is sent.
C17_UnknownShape ==
  (/\ fx.op = "onmessage"
   /\ Data(fx).raw = "json"
   /\ Data(fx).jsonrpc = Some("2.0")
   /\ ~IsDefined(Data(fx).method)
   /\ ~(IsDefined(Data(fx).id) /\ (IsDefined(Data(fx).result) \/ IsDefined(Data(fx).error))))
    => /\ Reported(fx, -32600)
       /\ IsDefined(Data(fx).id) => SentError(fx, Data(fx).id, -32600)

\* ------------------------------------------- properties: inbound Responses

\* a frame of the current version that handleMessage handles as a Response
ResponseFrame(data) ==
  /\ data.raw = "json"
  /\ data.jsonrpc = Some("2.0")
  /\ IsDefined(data.id)
  /\ IsDefined(data.result) \/ IsDefined(data.error)

\* C18: a Response whose id has no entry in the pending-request table (never
\* issued, or issued and timed out) is reported as INTERNAL_ERROR (-32603) on
\* the global error channel and does nothing else: no future changes, no timer
\* is cancelled, the table is unchanged, no frame is sent, no handler runs.
C18_UnmatchedResponse ==
  [][ (/\ fx'.op = "onmessage"
       /\ ResponseFrame(Data(fx'))
       /\ The(Data(fx').id) \notin DOMAIN pendingRequests)
        => /\ Reported(fx', -32603)
           /\ fx'.sent = <<>>
           /\ fx'.invoked = <<>>
           /\ fx'.outcome.kind = "returned"
           /\ UNCHANGED <<promise, timers, pendingRequests>>
    ]_vars

\* C18 witness: a Response for the first call arrives after that call timed
\* out, while the second call waits with its timer armed, and is reported.
C18_Witness ==
  /\ fx.op = "onmessage"
  /\ ResponseFrame(Data(fx))
  /\ Data(fx).id = Some(1)
  /\ 1 \in DOMAIN promise
  /\ promise[1] = TimeoutRejection(1)
  /\ Reported(fx, -32603)
  /\ Unsettled(2)
  /\ 2 \in timers

\* the synthetic Response a call is rejected with when its Response has both
\* a result and an error
InvalidResponseRejection(id) ==
  [state |-> "rejected",
   value |-> Some([raw |-> "json", jsonrpc |-> Some("2.0"), id |-> Some(id),
                   method |-> Undefined, params |-> Undefined, result |-> Undefined,
                   error |-> Some([code |-> Some(-32001),
                                   message |-> Some("Invalid response. Either result or error must be set, but not both.")])])]

\* C19: a Response that matches a pending call settles its future by shape:
\* result and error both present: rejected with the synthetic Response of code
\* INVALID_RESPONSE (-32001) and the id of the request; error only: rejected
\* with that Response; otherwise: resolved with that Response.
C19_OutcomeByShape ==
  [][ \A id \in DOMAIN pendingRequests :
        (/\ fx'.op = "onmessage"
         /\ ResponseFrame(Data(fx'))
         /\ Data(fx').id = Some(id)
         /\ promise[id].state = "pending")
          => promise'[id] =
               IF IsDefined(Data(fx').result) /\ IsDefined(Data(fx').error)
                 THEN InvalidResponseRejection(id)
               ELSE IF IsDefined(Data(fx').error)
                 THEN [state |-> "rejected", value |-> Some(Data(fx'))]
               ELSE [state |-> "resolved", value |-> Some(Data(fx'))]
    ]_vars

\* C19 witness: a Response with result and error has rejected the second call
\* with INVALID_RESPONSE, after an error Response rejected the first.
C19_Witness ==
  /\ fx.op = "onmessage"
  /\ Data(fx).id = Some(2)
  /\ IsDefined(Data(fx).result)
  /\ IsDefined(Data(fx).error)
  /\ 2 \in DOMAIN promise
  /\ promise[2] = InvalidResponseRejection(2)
  /\ 1 \in DOMAIN promise
  /\ promise[1].state = "rejected"
  /\ promise[1] # TimeoutRejection(1)
  /\ promise[1] # InvalidResponseRejection(1)

\* ------------------------------------------------- properties: closing

\* close() was called while the transport t existed: its caller holds the
\* promise of the close deferred that was created with t
CloseCalled(t) == closeCaller[t] # "none"

\* the close event of the transport t is delivered in this step
CloseEventDelivered(t) == readyState[t] # CLOSED /\ readyState'[t] = CLOSED

\* C20: every close() called while a transport exists requests closure with
\* code 1000, and the future it returned is resolved with the close event of
\* that transport when that event is delivered, whatever was called in between
\* (an open() before the close event included).
C20_CloseFutureIsResolved ==
  /\ [](fx.op = "close" /\ fx.outcome.kind = "promise"
          => /\ Len(fx.closes) = 1
             /\ fx.closes[1].code = 1000
             /\ fx.outcome.id = Some(fx.closes[1].transport))
  /\ [][ \A t \in Transports :
           CloseCalled(t) /\ CloseEventDelivered(t)
             => /\ IsDefined(closeResolved'[t])
                /\ The(closeResolved'[t]).transport = t
       ]_vars

\* C21: close() called when the engine holds no transport (never opened,
\* already closed, or closure already requested) resolves at once with the
\* "no connection" marker (a close event of code 1005, not an error), throws
\* nothing, reports nothing on the global error channel, requests no closure
\* and changes nothing: transports, their deferreds, table, timers, registry.
C21_CloseWithoutTransport ==
  [][ (fx'.op = "close" /\ fx.op = "idle" /\ websocket = 0)
        => /\ fx'.outcome = Outcome("resolved", Some(1005), Undefined)
           /\ fx'.errors = <<>>
           /\ fx'.closes = <<>>
           /\ fx'.sent = <<>>
           /\ UNCHANGED <<lifecycle, correlation, rpcMethods>>
    ]_vars

\* C21 witness: close() was called on a transport that is still closing, and
\* close() called again has resolved at once.
C21_Witness ==
  /\ fx.op = "close"
  /\ fx.outcome = Outcome("resolved", Some(1005), Undefined)
  /\ fx.errors = <<>>
  /\ \E t \in Transports : readyState[t] = CLOSING /\ closeCaller[t] = "user"

\* the close deferreds that this step resolves
ResolvedNow == {d \in DOMAIN closeResolved : ~IsDefined(closeResolved[d]) /\ IsDefined(closeResolved'[d])}

\* C22: when the close event of a transport has a code other than 1000, one
\* error with that code is reported on the global error channel, and it is
\* reported before the close future is resolved; when the code is 1000 the
\* close event reports nothing.
C22_AbnormalCloseIsReported ==
  [][ fx'.op = "onclose" /\ fx.op = "idle"
        => LET code == The(fx'.received).code IN
           IF code # 1000
             THEN /\ Reported(fx', code)
                  /\ \A d \in ResolvedNow :
                       /\ The(closeResolved'[d]).code = code
                       /\ The(closeResolved'[d]).reported = fx'.errors
             ELSE fx'.errors = <<>>
    ]_vars

\* C22 witness: a transport on which close() was called has closed with 1006;
\* the error was reported and then the future of close() resolved.
C22_Witness ==
  /\ fx.op = "onclose"
  /\ The(fx.received).code = 1006
  /\ Reported(fx, 1006)
  /\ \E d \in DOMAIN closeResolved :
       /\ closeCaller[d] = "user"
       /\ IsDefined(closeResolved[d])
       /\ The(closeResolved[d]).transport = The(fx.received).transport
       /\ The(closeResolved[d]).reported = fx.errors

\* the open() calls that this step resumes after `await this.close()`, each
\* named by the transport it asked to close
ResumedNow == Suspended \ {d \in DOMAIN closeResolved' : ~IsDefined(closeResolved'[d])}

\* C23: with open() calls serialized, open() called while the engine holds a
\* transport requests closure of that transport and creates no transport yet;
\* the new transport is created only when the close event of that transport
\* has fired, so that the transport is closed when its successor is made.
C23_ReopenWaitsForCloseEvent ==
  /\ [][ (fx'.op = "open" /\ fx.op = "idle" /\ websocket # 0)
           => /\ fx'.closes = <<CloseRequest(websocket)>>
              /\ readyState'[websocket] \in {CLOSING, CLOSED}
              /\ Len(readyState') = Len(readyState)
       ]_vars
  /\ [][ \A d \in ResumedNow :
           /\ Len(readyState') = Len(readyState) + 1
           /\ readyState'[d] = CLOSED
       ]_vars

\* --------------------------------------------- properties: error channels

\* C24 as it is written: handling an inbound Request (method not found,
\* invalid params, handler exception, or success) never invokes the global
\* error channel.
C24_RequestErrorsNeverGlobal ==
  (fx.op = "onmessage" /\ RequestFrame(Data(fx))) => fx.errors = <<>>

\* C24 amended: handling an inbound Request whose handler was invoked
\* (it returned or raised) never invokes the global error channel, so a handler
\* exception is reported as an error Response only; a Request for which no
\* handler is invoked invokes the channel once, with METHOD_NOT_FOUND (-32601)
\* or INVALID_PARAMS (-32602), the latter when a handler is registered, and an
\* error Response sent for it carries that same error.
C24_OnlyHandlerExceptionsStayOffTheChannel ==
  (fx.op = "onmessage" /\ RequestFrame(Data(fx)))
    => /\ IF fx.invoked # <<>>
            THEN fx.errors = <<>>
            ELSE /\ Reported(fx, -32601) \/ Reported(fx, -32602)
                 /\ HasHandler(Data(fx)) => Reported(fx, -32602)
       /\ \A i \in DOMAIN fx.sent :
            (fx.errors # <<>> /\ IsDefined(fx.sent[i].frame.error))
              => The(fx.sent[i].frame.error) = fx.errors[1]

\* C24 witness: a Request with id 1 for a method nobody registered is answered
\* METHOD_NOT_FOUND and reported on the global error channel as well.
C24_Witness ==
  /\ fx.op = "onmessage"
  /\ RequestFrame(Data(fx))
  /\ Data(fx).id = Some(1)
  /\ ~HasHandler(Data(fx))
  /\ SentError(fx, Some(1), -32601)
  /\ Reported(fx, -32601)

\* C25: every error that the engine sends to the peer in an error Response
\* (method not found, invalid parameters, handler exception, version mismatch)
\* is also reported on the error callback.
C25_SentErrorsAreReported ==
  fx.op = "onmessage"
    => \A i \in DOMAIN fx.sent :
         IsDefined(fx.sent[i].frame.error)
           => /\ Len(fx.errors) = 1
              /\ fx.errors[1] = The(fx.sent[i].frame.error)

\* the futures that this step changes
SettledNow == {id \in DOMAIN promise : promise'[id] # promise[id]}

\* C26: the errors of one call go to the future of that call and nowhere
\* else.  A call rejected because the session is not OPEN or because send
\* threw, a timeout, an error Response and a Response with both result and
\* error: none of them reports on the global error channel, none sends a
\* frame to the peer, and none changes the future of another call.
C26_CallerErrorsStayWithTheCaller ==
  [][ /\ (fx'.op = "call" /\ fx.op = "idle" /\ fx'.outcome.kind = "rejected")
           => /\ fx'.errors = <<>>
              /\ \A i \in DOMAIN fx'.sent : ~fx'.sent[i].ok
              /\ fx'.outcome.code = Some(-32603)
              /\ SettledNow = {}
      /\ (fx'.op = "timeout" /\ fx.op = "idle")
           => /\ fx'.errors = <<>>
              /\ fx'.sent = <<>>
              /\ \A id \in SettledNow : promise'[id] = TimeoutRejection(id)
              /\ Cardinality(SettledNow) <= 1
      /\ (/\ fx'.op = "onmessage" /\ fx.op = "idle"
          /\ ResponseFrame(Data(fx'))
          /\ IsDefined(Data(fx').error)
          /\ The(Data(fx').id) \in DOMAIN pendingRequests)
           => /\ fx'.errors = <<>>
              /\ fx'.sent = <<>>
              /\ SettledNow \subseteq {The(Data(fx').id)}
              /\ \A id \in SettledNow : promise'[id].state = "rejected"
    ]_vars

\* C26 witness: an error Response has rejected the second call with that
\* Response, after the first call was rejected by its timer; nothing was
\* reported and nothing was sent.
C26_Witness ==
  /\ fx.op = "onmessage"
  /\ Data(fx).id = Some(2)
  /\ IsDefined(Data(fx).error)
  /\ ~IsDefined(Data(fx).result)
  /\ 2 \in DOMAIN promise
  /\ promise[2] = [state |-> "rejected", value |-> Some(Data(fx))]
  /\ 1 \in DOMAIN promise
  /\ promise[1] = TimeoutRejection(1)
  /\ fx.errors = <<>>
  /\ fx.sent = <<>>

\* C27: handling an inbound frame, whatever it is (no JSON, null, another
\* version, unknown shape, a Response that matches nothing or has both result
\* and error, a Request that fails), never requests closure of a transport and
\* leaves the reference to the transport, every transport's readyState and so
\* the session state as they were.
C27_NoFrameEndsTheSession ==
  [][ (fx'.op = "onmessage" /\ fx.op = "idle")
        => /\ fx'.closes = <<>>
           /\ websocket' = websocket
           /\ readyState' = readyState
           /\ state' = state
           /\ closeDeferredPromise' = closeDeferredPromise
    ]_vars

\* C27 witness: a frame of another version was reported on the global error
\* channel and answered with an error, and the session is still OPEN.
C27_Witness ==
  /\ fx.op = "onmessage"
  /\ Data(fx).raw = "json"
  /\ Data(fx).jsonrpc = Some("1.0")
  /\ Reported(fx, -32600)
  /\ SentError(fx, Some(1), -32600)
  /\ websocket # 0
  /\ state = OPEN

\* ------------------------------------------ properties: classification

\* a parsed frame whose version is missing or is not "2.0"
WrongVersion(data) == data.raw = "json" /\ data.jsonrpc # Some("2.0")

\* C28: the version check comes before the dispatch on shape.  For a frame
\* whose version is missing or is not "2.0" no handler is invoked, and no
\* pending entry is used: no timer is cancelled, no future is settled, the
\* table is unchanged; also when the frame is a Response with the id of a
\* pending call or a Request for a registered method.
C28_VersionCheckComesFirst ==
  [][ (fx'.op = "onmessage" /\ fx.op = "idle" /\ WrongVersion(Data(fx')))
        => /\ fx'.invoked = <<>>
           /\ UNCHANGED <<promise, timers, pendingRequests>>
    ]_vars

\* C28 witness: a Response without version carries the id of a call that is
\* pending with its timer armed, while a handler is registered; the call is
\* still pending, its timer still armed, and the frame was reported.
C28_Witness ==
  /\ fx.op = "onmessage"
  /\ WrongVersion(Data(fx))
  /\ Data(fx).id = Some(1)
  /\ IsDefined(Data(fx).result)
  /\ Unsettled(1)
  /\ 1 \in timers
  /\ DOMAIN rpcMethods # {}
  /\ Reported(fx, -32600)

\* a correctly versioned parsed frame
Versioned(data) == data.raw = "json" /\ data.jsonrpc = Some("2.0")

\* the frame carries an id and at least one of result and error
ResponseShaped(data) ==
  IsDefined(data.id) /\ (IsDefined(data.result) \/ IsDefined(data.error))

\* what response handling, and nothing else, does with a frame: no handler,
\* no frame sent; with no entry for the id one INTERNAL_ERROR report and no
\* other effect; with an entry no report, its timer cancelled and its future
\* settled if it was pending
ResponsePath(data) ==
  /\ fx'.invoked = <<>>
  /\ fx'.sent = <<>>
  /\ IF The(data.id) \in DOMAIN pendingRequests
       THEN /\ fx'.errors = <<>>
            /\ The(data.id) \notin timers'
            /\ promise'[The(data.id)].state # "pending"
       ELSE /\ Reported(fx', -32603)
            /\ UNCHANGED <<promise, timers>>

\* what request dispatch, and nothing else, does: a handler is invoked, or
\* METHOD_NOT_FOUND or INVALID_PARAMS is reported; futures and timers stay
RequestPath ==
  /\ \/ Len(fx'.invoked) = 1 /\ fx'.errors = <<>>
     \/ fx'.invoked = <<>> /\ (Reported(fx', -32601) \/ Reported(fx', -32602))
  /\ UNCHANGED <<promise, timers>>

\* the invalid path: INVALID_REQUEST is reported, no handler, futures and
\* timers stay
InvalidPath ==
  /\ Reported(fx', -32600)
  /\ fx'.invoked = <<>>
  /\ UNCHANGED <<promise, timers>>

\* C29: a correctly versioned parsed frame takes exactly one path: response
\* handling when it has an id and a result or an error, else request dispatch
\* when it has a method, else the invalid path.  A frame with a method and
\* also an id and a result or error is a Response: no handler is invoked.
C29_OnePathByShape ==
  [][ (fx'.op = "onmessage" /\ fx.op = "idle" /\ Versioned(Data(fx')))
        => LET data == Data(fx') IN
           IF ResponseShaped(data) THEN ResponsePath(data)
           ELSE IF IsDefined(data.method) THEN RequestPath
           ELSE InvalidPath
    ]_vars

\* C29 witness: a frame with the method sum, the id 1 and a result arrived
\* while sum was registered and call 1 was pending: the call is resolved with
\* the frame and sum was not invoked.
C29_Witness ==
  /\ fx.op = "onmessage"
  /\ Versioned(Data(fx))
  /\ Data(fx).method = Some(sum_)
  /\ Data(fx).id = Some(1)
  /\ IsDefined(Data(fx).result)
  /\ sum_ \in DOMAIN rpcMethods
  /\ 1 \in DOMAIN promise
  /\ promise[1] = [state |-> "resolved", value |-> Some(Data(fx))]
  /\ fx.invoked = <<>>

\* ------------------------------------------- properties: named parameters

\* false, 0, the empty string, null
Falsy == {"false", "0", "", "null"}

\* a Request for a registered handler whose named params bind every declared
\* parameter name, and no other, one of them to a falsy value
BindsFalsy(f) ==
  /\ f.op = "onmessage"
  /\ RequestFrame(Data(f))
  /\ HasHandler(Data(f))
  /\ IsDefined(Data(f).params)
  /\ The(Data(f).params).kind = "object"
  /\ LET mapping == The(Data(f).params)
         names == DeclaredNames(HandlerOf(Data(f)))
     IN /\ {mapping.keys[i] : i \in DOMAIN mapping.keys} = {names[i] : i \in DOMAIN names}
        /\ \E i \in DOMAIN mapping.vals : mapping.vals[i] \in Falsy

\* C30 as it is written: a declared parameter bound to a falsy or empty value
\* counts as missing: the handler is not invoked and INVALID_PARAMS (-32602)
\* is answered.
C30_FalsyValueIsMissing ==
  BindsFalsy(fx)
    => /\ fx.invoked = <<>>
       /\ IsDefined(Data(fx).id) => SentError(fx, Data(fx).id, -32602)

\* C30 amended: a declared parameter bound to a falsy or empty value counts
\* as given: the handler is invoked once with the mapped values, the falsy
\* ones as they are, in declared order, and INVALID_PARAMS is neither
\* reported nor answered.
C30_FalsyValueIsPassed ==
  BindsFalsy(fx)
    => LET handler == HandlerOf(Data(fx))
           mapping == The(Data(fx).params)
           names == DeclaredNames(handler)
       IN /\ fx.invoked = <<[callback |-> handler,
                             args |-> [i \in DOMAIN names |-> Bound(mapping, names[i])]]>>
          /\ fx.errors = <<>>
          /\ \A i \in DOMAIN fx.sent :
               IsDefined(fx.sent[i].frame.error)
                 => The(fx.sent[i].frame.error).code # Some(-32602)

\* C30 witness: {b: false, a: null} with id 1: sum(null, false) was invoked
\* and its result 0 answered.
C30_Witness ==
  /\ BindsFalsy(fx)
  /\ Data(fx).id = Some(1)
  /\ fx.invoked = <<[callback |-> "sum", args |-> <<"null", "false">>]>>
  /\ SentResult(fx, Some(1), "0")

\* ------------------------------------- properties: params of other shapes

\* C31: a Request for a registered method whose params is present and is a
\* number, a string or a boolean (0, the empty string and false included):
\* the handler is not invoked, and INVALID_PARAMS (-32602) is answered when
\* the Request carries an id.
C31_ScalarParamsAreInvalid ==
  (/\ fx.op = "onmessage"
   /\ RequestFrame(Data(fx))
   /\ HasHandler(Data(fx))
   /\ IsDefined(Data(fx).params)
   /\ The(Data(fx).params).kind = "scalar")
    => /\ fx.invoked = <<>>
       /\ IsDefined(Data(fx).id) => SentError(fx, Data(fx).id, -32602)

\* C32: a Request for a registered method that has no params: the handler is
\* invoked exactly once, with no argument, whatever its declared parameter
\* count, and when the Request carries an id one Response with that id is
\* sent.
C32_AbsentParamsMeansNoArguments ==
  (/\ fx.op = "onmessage"
   /\ RequestFrame(Data(fx))
   /\ HasHandler(Data(fx))
   /\ ~IsDefined(Data(fx).params))
    => /\ fx.invoked = <<[callback |-> HandlerOf(Data(fx)), args |-> <<>>]>>
       /\ IsDefined(Data(fx).id)
            => /\ Len(fx.sent) = 1
               /\ fx.sent[1].ok
               /\ fx.sent[1].frame.id = Data(fx).id

\* ------------------------------------------------ properties: the state

\* the transport the engine created last
Newest == Len(readyState)

\* C33 as it is written: `state` is the ready state of the most recently
\* created transport, and CLOSED when none was created; so between close()
\* and the close event, while the transport is CLOSING, `state` is CLOSING.
C33_StateIsTheNewestTransportsState ==
  state = IF Newest = 0 THEN CLOSED ELSE readyState[Newest]

\* C33 amended: `state` is the ready state of the most recently created
\* transport only until close() is called or a close event is delivered;
\* from then on, and when no transport was created, it is CLOSED.  So between
\* close() and the close event `state` is CLOSED while the transport is
\* CLOSING.
C33_StateIsClosedOnceCloseIsCalled ==
  state = IF /\ Newest # 0
             /\ closeCaller[Newest] = "none"
             /\ ~IsDefined(closeResolved[Newest])
           THEN readyState[Newest]
           ELSE CLOSED

\* C33 witness: close() was called on the open transport; the transport is
\* CLOSING and `state` is CLOSED.
C33_Witness ==
  /\ fx.op = "close"
  /\ fx.outcome.kind = "promise"
  /\ readyState[The(fx.outcome.id)] = CLOSING
  /\ openDeferredPromise[The(fx.outcome.id)] = "resolved"
  /\ state = CLOSED

\* ------------------------------- properties: closure and outstanding calls

\* C34: close(), the close event of a transport (with any code) and open()
\* leave the pending-request table, its armed timers and the unsettled
\* futures unchanged; a call that is outstanding is settled only by a
\* Response carrying its id or by its own timer.
C34_ClosureLeavesCallsPending ==
  [][ /\ (fx.op = "idle" /\ fx'.op \in {"close", "onclose", "open"})
           => UNCHANGED <<pendingRequests, timers, promise>>
      /\ \A id \in DOMAIN promise :
           (Unsettled(id) /\ promise'[id] # promise[id])
             => \/ fx'.op = "timeout" /\ id \in timers /\ id \notin timers'
                \/ /\ fx'.op = "onmessage"
                   /\ ResponseFrame(Data(fx'))
                   /\ Data(fx').id = Some(id)
    ]_vars

\* C34 witness: the close event of the transport has been handled while a call
\* is outstanding: its entry is in the table, its timer is armed and its
\* future is unsettled, and no transport is left.
C34_Witness ==
  /\ fx.op = "onclose"
  /\ websocket = 0
  /\ \A t \in Transports : readyState[t] = CLOSED
  /\ 1 \in DOMAIN pendingRequests
  /\ 1 \in timers
  /\ Unsettled(1)

\* -------------------------------------- properties: superseded transports

\* the close event this step handles comes from a transport that close() and
\* open() have replaced: the engine refers to a newer one
SupersededCloses ==
  /\ fx.op = "idle"
  /\ fx'.op = "onclose"
  /\ websocket # 0
  /\ The(fx'.received).transport # websocket

\* C35: a close event delivered by a transport that has been superseded does
\* not clear the reference to the newer transport and does not resolve the
\* close future of the newer transport; after it `state` still is the state
\* of the newer transport.
C35_SupersededCloseEventIsIgnored ==
  [][ SupersededCloses
        => /\ websocket' = websocket
           /\ closeResolved'[closeDeferredPromise] = closeResolved[closeDeferredPromise]
           /\ state' = readyState[websocket]
    ]_vars

\* ------------------------------------- properties: the message callback

\* C36: handling an inbound frame never lets an exception escape the message
\* callback of the transport, also when a frame that requires a reply is
\* delivered after close() and before the close event, and when the frame
\* parses to null.
C36_MessageCallbackNeverThrows ==
  fx.op = "onmessage" => fx.outcome.kind = "returned"

\* C37: while the session is OPEN and the transport takes what is sent, every
\* correctly versioned Request that carries an id, 0 included, makes the
\* engine send exactly one Response, and that Response carries the id.
C37_EveryRequestWithIdIsAnsweredOnce ==
  (/\ fx.op = "onmessage"
   /\ SessionOpen
   /\ RequestFrame(Data(fx))
   /\ IsDefined(Data(fx).id)
   /\ \A i \in DOMAIN fx.sent : fx.sent[i].ok)
    => /\ Len(fx.sent) = 1
       /\ fx.sent[1].frame.id = Data(fx).id
       /\ IsDefined(fx.sent[1].frame.result) \/ IsDefined(fx.sent[1].frame.error)

\* C38: a Response whose id belongs to a call that an earlier Response has
\* settled is handled like a Response whose id was never issued: it is
\* reported as INTERNAL_ERROR (-32603) on the global error channel, and
\* nothing else happens.
C38_SecondResponseIsUnmatched ==
  [][ (/\ fx.op = "idle"
       /\ fx'.op = "onmessage"
       /\ ResponseFrame(Data(fx'))
       /\ The(Data(fx').id) \in DOMAIN promise
       /\ promise[The(Data(fx').id)].state # "pending"
       /\ promise[The(Data(fx').id)] # TimeoutRejection(The(Data(fx').id)))
        => /\ Reported(fx', -32603)
           /\ fx'.sent = <<>>
           /\ UNCHANGED <<promise, timers, pendingRequests>>
    ]_vars

\* ----------------------------------- properties: frames and their transport

\* the transport that call() wrote the Request with this id to
SentOn(id) == sentOn[id]

\* C39: a Response settles only a call that was sent on the transport the
\* Response arrived on; after a close and a reopen, a Response received on the
\* new transport never settles a call issued on the previous one.
C39_ResponseSettlesCallsOfItsTransport ==
  [][ (fx.op = "idle" /\ fx'.op = "onmessage")
        => \A id \in SettledNow : SentOn(id) = The(fx'.received).transport
    ]_vars

\* C40: the Response to an inbound Request is written to the transport on
\* which the Request arrived; a frame delivered by a superseded transport
\* never causes a write on the newer transport.
C40_ReplyGoesToTheTransportOfTheRequest ==
  fx.op = "onmessage"
    => \A i \in DOMAIN fx.sent : fx.sent[i].transport = The(fx.received).transport

====
